---- MODULE Spec2Model ----
(***************************************************************************)
(* A model of the pod manifest validator (src/main.go): the parsed         *)
(* yaml.Node tree, the accessor layer (viewMap, getScalarString,           *)
(* getSequence, getMapping), the error accumulator vCtx and the            *)
(* recursive-descent validation routines, run as a machine whose agenda    *)
(* `stack` holds the calls and addErr statements still to be executed, in  *)
(* program order.                                                          *)
(***************************************************************************)
EXTENDS Integers, Sequences, FiniteSets, TLC

VARIABLES
  file,      \* the manifest named on the command line (which document it is)
  root,      \* main: var root yaml.Node, filled by yaml.Unmarshal
  errs,      \* vCtx.errs
  stack,     \* the statements of the validation routines still to run
  pc,        \* position of main: "main", "validate", "exit"
  stderr,    \* the lines flush wrote
  exitCode,  \* the status given to os.Exit, <<>> while running
  runs       \* the errs of the finished invocations on this file, oldest first

vars == <<file, root, errs, stack, pc, stderr, exitCode, runs>>

-----------------------------------------------------------------------------
(* yaml.Node: kind, tag, value, line, content.                             *)

DocumentNode == "DocumentNode"
SequenceNode == "SequenceNode"
MappingNode == "MappingNode"
ScalarNode == "ScalarNode"
ZeroKind == "ZeroKind"

StrTag == "!!str"
IntTag == "!!int"

\* The zero yaml.Node: what `var root yaml.Node` holds before Unmarshal, and
\* what Unmarshal leaves for an empty file.
ZeroNode == [kind |-> ZeroKind, tag |-> "", value |-> "", line |-> 0, content |-> <<>>]

Scalar(l, t, v) == [kind |-> ScalarNode, tag |-> t, value |-> v, line |-> l, content |-> <<>>]
StrS(l, v) == Scalar(l, StrTag, v)
IntS(l, v) == Scalar(l, IntTag, v)
Mapping(l, c) == [kind |-> MappingNode, tag |-> "!!map", value |-> "", line |-> l, content |-> c]
Sequence(l, c) == [kind |-> SequenceNode, tag |-> "!!seq", value |-> "", line |-> l, content |-> c]
Document(c) == [kind |-> DocumentNode, tag |-> "", value |-> "", line |-> 1, content |-> c]

\* A *int: <<>> is nil, <<l>> points at l.
Nil == <<>>
Ptr(l) == <<l>>

-----------------------------------------------------------------------------
(* Text.  A Go string is held as a TLA+ string; Chars gives the characters *)
(* of every text the documents of the model hand to strconv.Atoi, to a     *)
(* regexp, to strings.ToLower or to strings.HasPrefix.                     *)

Chars(s) ==
  CASE s = "" -> <<>>
    [] s = "80" -> <<"8", "0">>
    [] s = "8080" -> <<"8", "0", "8", "0">>
    [] s = "0" -> <<"0">>
    [] s = "-1" -> <<"-", "1">>
    [] s = "+80" -> <<"+", "8", "0">>
    [] s = "65535" -> <<"6", "5", "5", "3", "5">>
    [] s = "65536" -> <<"6", "5", "5", "3", "6">>
    [] s = "70000" -> <<"7", "0", "0", "0", "0">>
    [] s = "abc" -> <<"a", "b", "c">>
    [] s = "http" -> <<"h", "t", "t", "p">>
    [] s = "1" -> <<"1">>
    [] s = "2" -> <<"2">>
    [] s = "4" -> <<"4">>
    [] s = "1.5" -> <<"1", ".", "5">>
    [] s = "web" -> <<"w", "e", "b">>
    [] s = "web_app" -> <<"w", "e", "b", "_", "a", "p", "p">>
    [] s = "db_1" -> <<"d", "b", "_", "1">>
    [] s = "web__app" -> <<"w", "e", "b", "_", "_", "a", "p", "p">>
    [] s = "web_" -> <<"w", "e", "b", "_">>
    [] s = "My-Container" ->
         <<"M", "y", "-", "C", "o", "n", "t", "a", "i", "n", "e", "r">>
    [] s = "registry.bigbrother.io/web:1.0" ->
         <<"r", "e", "g", "i", "s", "t", "r", "y", ".", "b", "i", "g", "b", "r",
           "o", "t", "h", "e", "r", ".", "i", "o", "/", "w", "e", "b", ":", "1",
           ".", "0">>
    [] s = "registry.bigbrother.io/db:V2" ->
         <<"r", "e", "g", "i", "s", "t", "r", "y", ".", "b", "i", "g", "b", "r",
           "o", "t", "h", "e", "r", ".", "i", "o", "/", "d", "b", ":", "V", "2">>
    [] s = "registry.bigbrother.io/web" ->
         <<"r", "e", "g", "i", "s", "t", "r", "y", ".", "b", "i", "g", "b", "r",
           "o", "t", "h", "e", "r", ".", "i", "o", "/", "w", "e", "b">>
    [] s = "nginx:latest" ->
         <<"n", "g", "i", "n", "x", ":", "l", "a", "t", "e", "s", "t">>
    [] s = "128Mi" -> <<"1", "2", "8", "M", "i">>
    [] s = "256Mi" -> <<"2", "5", "6", "M", "i">>
    [] s = "1Gi" -> <<"1", "G", "i">>
    [] s = "128M" -> <<"1", "2", "8", "M">>
    [] s = "Mi" -> <<"M", "i">>
    [] s = "linux" -> <<"l", "i", "n", "u", "x">>
    [] s = "windows" -> <<"w", "i", "n", "d", "o", "w", "s">>
    [] s = "Windows" -> <<"W", "i", "n", "d", "o", "w", "s">>
    [] s = "darwin" -> <<"d", "a", "r", "w", "i", "n">>
    [] s = "bsd" -> <<"b", "s", "d">>
    [] s = "/ready" -> <<"/", "r", "e", "a", "d", "y">>
    [] s = "/live" -> <<"/", "l", "i", "v", "e">>
    [] s = "ready" -> <<"r", "e", "a", "d", "y">>

LowerC ==
  {"a", "b", "c", "d", "e", "f", "g", "h", "i", "j", "k", "l", "m",
   "n", "o", "p", "q", "r", "s", "t", "u", "v", "w", "x", "y", "z"}
UpperC ==
  {"A", "B", "C", "D", "E", "F", "G", "H", "I", "J", "K", "L", "M",
   "N", "O", "P", "Q", "R", "S", "T", "U", "V", "W", "X", "Y", "Z"}
DigitC == {"0", "1", "2", "3", "4", "5", "6", "7", "8", "9"}

DigitVal(c) ==
  CASE c = "0" -> 0 [] c = "1" -> 1 [] c = "2" -> 2 [] c = "3" -> 3
    [] c = "4" -> 4 [] c = "5" -> 5 [] c = "6" -> 6 [] c = "7" -> 7
    [] c = "8" -> 8 [] c = "9" -> 9

\* unicode.ToLower on one character (the documents are ASCII).
LowerChar(c) ==
  CASE c = "A" -> "a" [] c = "B" -> "b" [] c = "C" -> "c" [] c = "D" -> "d"
    [] c = "E" -> "e" [] c = "F" -> "f" [] c = "G" -> "g" [] c = "H" -> "h"
    [] c = "I" -> "i" [] c = "J" -> "j" [] c = "K" -> "k" [] c = "L" -> "l"
    [] c = "M" -> "m" [] c = "N" -> "n" [] c = "O" -> "o" [] c = "P" -> "p"
    [] c = "Q" -> "q" [] c = "R" -> "r" [] c = "S" -> "s" [] c = "T" -> "t"
    [] c = "U" -> "u" [] c = "V" -> "v" [] c = "W" -> "w" [] c = "X" -> "x"
    [] c = "Y" -> "y" [] c = "Z" -> "z" [] OTHER -> c

\* strings.ToLower(s), as characters.
ToLower(s) == [i \in 1..Len(Chars(s)) |-> LowerChar(Chars(s)[i])]

\* strings.HasPrefix(s, "/")
HasSlashPrefix(s) == Len(Chars(s)) >= 1 /\ Chars(s)[1] = "/"

\* strconv.Atoi on texts shorter than 19 characters: an optional sign, then
\* at least one character, every one a decimal digit.  [err, val].
RECURSIVE AtoiDigits(_, _, _)
AtoiDigits(cs, i, n) ==
  IF i > Len(cs) THEN [err |-> FALSE, val |-> n]
  ELSE IF cs[i] \notin DigitC THEN [err |-> TRUE, val |-> 0]
  ELSE AtoiDigits(cs, i + 1, n * 10 + DigitVal(cs[i]))

Atoi(s) ==
  LET cs == Chars(s)
      signed == Len(cs) > 0 /\ cs[1] \in {"-", "+"}
      ds == IF signed THEN Tail(cs) ELSE cs
      r == AtoiDigits(ds, 1, 0)
  IN  IF Len(ds) < 1 THEN [err |-> TRUE, val |-> 0]
      ELSE IF r.err THEN r
      ELSE IF cs[1] = "-" THEN [err |-> FALSE, val |-> 0 - r.val]
      ELSE r

\* reSnakeCase: ^[a-z0-9]+(?:_[a-z0-9]+)*$
\* seg is TRUE once the current segment holds a character.
RECURSIVE SnakeFrom(_, _, _)
SnakeFrom(cs, i, seg) ==
  IF i > Len(cs) THEN seg
  ELSE IF cs[i] \in LowerC \cup DigitC THEN SnakeFrom(cs, i + 1, TRUE)
  ELSE IF cs[i] = "_" /\ seg THEN SnakeFrom(cs, i + 1, FALSE)
  ELSE FALSE

reSnakeCase(s) == SnakeFrom(Chars(s), 1, FALSE)

\* reImage: ^registry\.bigbrother\.io\/[a-z0-9._\/-]+:[A-Za-z0-9._-]+$
ImagePrefix ==
  <<"r", "e", "g", "i", "s", "t", "r", "y", ".", "b", "i", "g", "b", "r",
    "o", "t", "h", "e", "r", ".", "i", "o", "/">>
ImagePathC == LowerC \cup DigitC \cup {".", "_", "/", "-"}
ImageTagC == UpperC \cup LowerC \cup DigitC \cup {".", "_", "-"}

\* part is "path" before the colon and "tag" after it; n counts the
\* characters of the current part.
RECURSIVE ImageFrom(_, _, _, _)
ImageFrom(cs, i, part, n) ==
  IF i > Len(cs) THEN part = "tag" /\ n > 0
  ELSE IF part = "path" /\ cs[i] \in ImagePathC THEN ImageFrom(cs, i + 1, "path", n + 1)
  ELSE IF part = "path" /\ cs[i] = ":" /\ n > 0 THEN ImageFrom(cs, i + 1, "tag", 0)
  ELSE IF part = "tag" /\ cs[i] \in ImageTagC THEN ImageFrom(cs, i + 1, "tag", n + 1)
  ELSE FALSE

reImage(s) ==
  LET cs == Chars(s)
      k == Len(ImagePrefix)
  IN  /\ Len(cs) > k
      /\ SubSeq(cs, 1, k) = ImagePrefix
      /\ ImageFrom(cs, k + 1, "path", 0)

\* reMem: ^\d+(Gi|Mi|Ki)$
reMem(s) ==
  LET cs == Chars(s)
      n == Len(cs)
  IN  /\ n >= 3
      /\ \A i \in 1..(n - 2) : cs[i] \in DigitC
      /\ cs[n - 1] \in {"G", "M", "K"}
      /\ cs[n] = "i"

\* Faulty range checks, for comparison with portInRange: the upper bound off by one, either way.
portInRange_below(p) == p > 0 /\ p < 65535
portInRange_above(p) == p > 0 /\ p <= 65536

portInRange(p) == p > 0 /\ p < 65536

-----------------------------------------------------------------------------
(* The accessor layer.                                                     *)

EmptyView == [fields |-> <<>>, lines |-> <<>>]

\* A faulty viewMapLoop, for comparison: the first declaration of a key is kept.
RECURSIVE viewMapLoop_first(_, _, _)
viewMapLoop_first(content, i, mv) ==
  IF i + 1 > Len(content) THEN mv
  ELSE LET k == content[i]
           v == content[i + 1]
       IN  viewMapLoop_first(content, i + 2,
             [fields |-> mv.fields @@ (k.value :> v),
              lines |-> mv.lines @@ (k.value :> k.line)])

\* viewMap's loop over the [key, value] pairs: a later pair with the same
\* key overwrites the entry of an earlier one.  i is the 1-based index of
\* the key.
RECURSIVE viewMapLoop(_, _, _)
viewMapLoop(content, i, mv) ==
  IF i + 1 > Len(content) THEN mv
  ELSE LET k == content[i]
           v == content[i + 1]
       IN  viewMapLoop(content, i + 2,
             [fields |-> (k.value :> v) @@ mv.fields,
              lines |-> (k.value :> k.line) @@ mv.lines])

viewMap(n) ==
  IF n.kind # MappingNode
  THEN [err |-> TRUE, mv |-> EmptyView]
  ELSE [err |-> FALSE, mv |-> viewMapLoop(n.content, 1, EmptyView)]

getScalarString(n) ==
  IF n.kind = ScalarNode THEN [ok |-> TRUE, s |-> n.value]
  ELSE [ok |-> FALSE, s |-> ""]

getSequence(n) ==
  IF n.kind = SequenceNode THEN [ok |-> TRUE, seq |-> n.content]
  ELSE [ok |-> FALSE, seq |-> <<>>]

getMapping(n) ==
  IF n.kind = MappingNode
  THEN LET r == viewMap(n)
       IN  IF r.err THEN [ok |-> FALSE, fields |-> <<>>, lines |-> <<>>]
           ELSE [ok |-> TRUE, fields |-> r.mv.fields, lines |-> r.mv.lines]
  ELSE [ok |-> FALSE, fields |-> <<>>, lines |-> <<>>]

\* The ok of `node, ok := mv.fields[key]`.
Has(mv, key) == key \in DOMAIN mv.fields

-----------------------------------------------------------------------------
(* The statements a routine leaves on the agenda: a call of another        *)
(* routine, or v.addErr(line, msg).                                         *)

AddErr(line, msg) ==
  [op |-> "addErr", n |-> ZeroNode, prefix |-> "", line |-> line, msg |-> msg]
Call(op, n, prefix) ==
  [op |-> op, n |-> n, prefix |-> prefix, line |-> Nil, msg |-> ""]

\* The statements of body(x) for x = s[1], s[2], ... in turn.
RECURSIVE Flatten(_)
Flatten(ss) == IF ss = <<>> THEN <<>> ELSE Head(ss) \o Flatten(Tail(ss))

ForEach(s, body(_)) == Flatten([i \in 1..Len(s) |-> body(s[i])])

\* `for k, v := range m` visits the keys of a Go map in an order the
\* language leaves open: every enumeration of the keys is a possible one.
RangeOrders(m) ==
  LET D == DOMAIN m
      n == Cardinality(D)
  IN  {p \in [1..n -> D] : \A i, j \in 1..n : i # j => p[i] # p[j]}

-----------------------------------------------------------------------------
(* The validation routines.                                                *)

\* A faulty validateTopField, for comparison: an unsupported value is reported without its line.
validateTopField_noline(mv, key, want) ==
  IF ~(key \in DOMAIN mv.fields) THEN <<AddErr(Nil, key \o " is required")>>
  ELSE LET node == mv.fields[key]
           r == getScalarString(node)
       IN  IF ~r.ok THEN <<AddErr(Ptr(node.line), key \o " must be string")>>
           ELSE IF r.s # want
           THEN <<AddErr(Nil, key \o " has unsupported value '" \o r.s \o "'")>>
           ELSE <<>>

\* The required string field with one supported value (apiVersion, kind).
validateTopField(mv, key, want) ==
  IF ~Has(mv, key) THEN <<AddErr(Nil, key \o " is required")>>
  ELSE LET node == mv.fields[key]
           r == getScalarString(node)
       IN  IF ~r.ok THEN <<AddErr(Ptr(node.line), key \o " must be string")>>
           ELSE IF r.s # want
           THEN <<AddErr(Ptr(node.line),
                         key \o " has unsupported value '" \o r.s \o "'")>>
           ELSE <<>>

\* A faulty validateTop, for comparison: no return after "document must be mapping".
validateTop_noreturn(n) ==
  IF n.kind # DocumentNode \/ Len(n.content) = 0
  THEN <<AddErr(Nil, "document is required")>>
  ELSE
    LET obj == n.content[1]
        mv == getMapping(obj)
    IN  (IF ~mv.ok THEN <<AddErr(Ptr(obj.line), "document must be mapping")>> ELSE <<>>)
        \o validateTopField(mv, "apiVersion", "v1")
        \o validateTopField(mv, "kind", "Pod")
        \o (IF ~Has(mv, "metadata") THEN <<AddErr(Nil, "metadata is required")>>
            ELSE <<Call("validateObjectMeta", mv.fields["metadata"], "")>>)
        \o (IF ~Has(mv, "spec") THEN <<AddErr(Nil, "spec is required")>>
            ELSE <<Call("validatePodSpec", mv.fields["spec"], "")>>)

validateTop(n) ==
  IF n.kind # DocumentNode \/ Len(n.content) = 0
  THEN <<AddErr(Nil, "document is required")>>
  ELSE
    LET obj == n.content[1]
        mv == getMapping(obj)
    IN  IF ~mv.ok THEN <<AddErr(Ptr(obj.line), "document must be mapping")>>
        ELSE validateTopField(mv, "apiVersion", "v1")
             \o validateTopField(mv, "kind", "Pod")
             \o (IF ~Has(mv, "metadata") THEN <<AddErr(Nil, "metadata is required")>>
                 ELSE <<Call("validateObjectMeta", mv.fields["metadata"], "")>>)
             \o (IF ~Has(mv, "spec") THEN <<AddErr(Nil, "spec is required")>>
                 ELSE <<Call("validatePodSpec", mv.fields["spec"], "")>>)

\* The map validateObjectMeta ranges over: lmv.fields when labels is a
\* mapping, and no map otherwise.
labelsFields(n) ==
  LET mv == getMapping(n)
  IN  IF mv.ok /\ Has(mv, "labels") THEN getMapping(mv.fields["labels"]).fields
      ELSE <<>>

\* order: the order in which the range over lmv.fields visits the keys.
validateObjectMeta(n, order) ==
  LET mv == getMapping(n)
  IN  IF ~mv.ok THEN <<AddErr(Ptr(n.line), "metadata must be object")>>
      ELSE
        (IF ~Has(mv, "name") THEN <<AddErr(Nil, "metadata.name is required")>>
         ELSE IF ~getScalarString(mv.fields["name"]).ok
         THEN <<AddErr(Ptr(mv.fields["name"].line), "metadata.name must be string")>>
         ELSE <<>>)
        \o (IF Has(mv, "namespace") /\ ~getScalarString(mv.fields["namespace"]).ok
            THEN <<AddErr(Ptr(mv.fields["namespace"].line),
                          "metadata.namespace must be string")>>
            ELSE <<>>)
        \o (IF ~Has(mv, "labels") THEN <<>>
            ELSE LET labelsNode == mv.fields["labels"]
                     lmv == getMapping(labelsNode)
                     label(k) ==
                       IF ~getScalarString(lmv.fields[k]).ok
                       THEN <<AddErr(Ptr(lmv.fields[k].line),
                                     "metadata.labels." \o k \o " must be string")>>
                       ELSE <<>>
                 IN  IF ~lmv.ok
                     THEN <<AddErr(Ptr(labelsNode.line), "metadata.labels must be object")>>
                     ELSE ForEach(order, label))

\* The os field of a pod spec: a scalar, a mapping with a name, or neither.
validateOS(osNode) ==
  CASE osNode.kind = ScalarNode ->
         IF ToLower(osNode.value) # Chars("linux") /\ ToLower(osNode.value) # Chars("windows")
         THEN <<AddErr(Ptr(osNode.line),
                       "spec.os has unsupported value '" \o osNode.value \o "'")>>
         ELSE <<>>
    [] osNode.kind = MappingNode ->
         LET omv == getMapping(osNode)
         IN  IF ~Has(omv, "name") THEN <<AddErr(Nil, "spec.os.name is required")>>
             ELSE LET nameNode == omv.fields["name"]
                      r == getScalarString(nameNode)
                  IN  IF ~r.ok
                      THEN <<AddErr(Ptr(nameNode.line), "spec.os.name must be string")>>
                      ELSE IF ToLower(r.s) # Chars("linux") /\ ToLower(r.s) # Chars("windows")
                      THEN <<AddErr(Ptr(nameNode.line),
                                    "spec.os.name has unsupported value '" \o r.s \o "'")>>
                      ELSE <<>>
    [] OTHER -> <<AddErr(Ptr(osNode.line), "spec.os must be string or object")>>

containerCall(c) == <<Call("validateContainer", c, "")>>

\* A faulty validatePodSpec, for comparison: containers is looked at before os, and the
\* routine returns at once when it holds no container to validate.
validatePodSpec_containersFirst(n) ==
  LET mv == getMapping(n)
      os == IF Has(mv, "os") THEN validateOS(mv.fields["os"]) ELSE <<>>
  IN  IF ~mv.ok THEN <<AddErr(Ptr(n.line), "spec must be object")>>
      ELSE IF ~Has(mv, "containers")
      THEN <<AddErr(Nil, "spec.containers is required")>>
      ELSE LET contNode == mv.fields["containers"]
               r == getSequence(contNode)
           IN  IF ~r.ok
               THEN <<AddErr(Ptr(contNode.line), "spec.containers must be array")>>
               ELSE os
                    \o (IF Len(r.seq) = 0
                        THEN <<AddErr(Ptr(contNode.line),
                                      "spec.containers must not be empty")>>
                        ELSE <<>>)
                    \o ForEach(r.seq, containerCall)

validatePodSpec(n) ==
  LET mv == getMapping(n)
  IN  IF ~mv.ok THEN <<AddErr(Ptr(n.line), "spec must be object")>>
      ELSE
        (IF Has(mv, "os") THEN validateOS(mv.fields["os"]) ELSE <<>>)
        \o (IF ~Has(mv, "containers")
            THEN <<AddErr(Nil, "spec.containers is required")>>
            ELSE LET contNode == mv.fields["containers"]
                     r == getSequence(contNode)
                 IN  IF ~r.ok
                     THEN <<AddErr(Ptr(contNode.line), "spec.containers must be array")>>
                     ELSE (IF Len(r.seq) = 0
                           THEN <<AddErr(Ptr(contNode.line),
                                         "spec.containers must not be empty")>>
                           ELSE <<>>)
                          \o ForEach(r.seq, containerCall))

\* A required string field of a container with a format (name, image).
validateFormatted(mv, key, matches(_)) ==
  IF ~Has(mv, key) THEN <<AddErr(Nil, "containers." \o key \o " is required")>>
  ELSE LET node == mv.fields[key]
           r == getScalarString(node)
       IN  IF ~r.ok
           THEN <<AddErr(Ptr(node.line), "containers." \o key \o " must be string")>>
           ELSE IF ~matches(r.s)
           THEN <<AddErr(Ptr(node.line),
                         "containers." \o key \o " has invalid format '" \o r.s \o "'")>>
           ELSE <<>>

portCall(p) == <<Call("validateContainerPort", p, "")>>

\* A faulty validateContainer, for comparison: the routine returns at the first field of
\* the container that is missing or malformed.
validateContainer_failfast(n) ==
  LET mv == getMapping(n)
      name == validateFormatted(mv, "name", reSnakeCase)
      image == validateFormatted(mv, "image", reImage)
  IN  IF ~mv.ok THEN <<AddErr(Ptr(n.line), "containers[] must be object")>>
      ELSE IF name # <<>> THEN name
      ELSE IF image # <<>> THEN image
      ELSE IF Has(mv, "ports") /\ ~getSequence(mv.fields["ports"]).ok
      THEN <<AddErr(Ptr(mv.fields["ports"].line), "containers.ports must be array")>>
      ELSE
        (IF Has(mv, "ports") THEN ForEach(getSequence(mv.fields["ports"]).seq, portCall)
         ELSE <<>>)
        \o (IF Has(mv, "readinessProbe")
            THEN <<Call("validateProbe", mv.fields["readinessProbe"],
                        "containers.readinessProbe")>>
            ELSE <<>>)
        \o (IF Has(mv, "livenessProbe")
            THEN <<Call("validateProbe", mv.fields["livenessProbe"],
                        "containers.livenessProbe")>>
            ELSE <<>>)
        \o (IF ~Has(mv, "resources")
            THEN <<AddErr(Nil, "containers.resources is required")>>
            ELSE <<Call("validateResources", mv.fields["resources"], "")>>)

validateContainer(n) ==
  LET mv == getMapping(n)
  IN  IF ~mv.ok THEN <<AddErr(Ptr(n.line), "containers[] must be object")>>
      ELSE
        validateFormatted(mv, "name", reSnakeCase)
        \o validateFormatted(mv, "image", reImage)
        \o (IF ~Has(mv, "ports") THEN <<>>
            ELSE LET portsNode == mv.fields["ports"]
                     r == getSequence(portsNode)
                 IN  IF ~r.ok
                     THEN <<AddErr(Ptr(portsNode.line), "containers.ports must be array")>>
                     ELSE ForEach(r.seq, portCall))
        \o (IF Has(mv, "readinessProbe")
            THEN <<Call("validateProbe", mv.fields["readinessProbe"],
                        "containers.readinessProbe")>>
            ELSE <<>>)
        \o (IF Has(mv, "livenessProbe")
            THEN <<Call("validateProbe", mv.fields["livenessProbe"],
                        "containers.livenessProbe")>>
            ELSE <<>>)
        \o (IF ~Has(mv, "resources")
            THEN <<AddErr(Nil, "containers.resources is required")>>
            ELSE <<Call("validateResources", mv.fields["resources"], "")>>)

\* The required port number of a port entry or of an httpGet: field is the
\* qualified name the messages carry.
validatePortNumber(mv, key, field) ==
  IF ~Has(mv, key) THEN <<AddErr(Nil, field \o " is required")>>
  ELSE LET node == mv.fields[key]
           r == getScalarString(node)
       IN  IF ~r.ok THEN <<AddErr(Ptr(node.line), field \o " must be int")>>
           ELSE IF Atoi(r.s).err THEN <<AddErr(Ptr(node.line), field \o " must be int")>>
           ELSE IF ~portInRange(Atoi(r.s).val)
           THEN <<AddErr(Ptr(node.line), field \o " value out of range")>>
           ELSE <<>>

validateContainerPort(n) ==
  LET mv == getMapping(n)
  IN  IF ~mv.ok THEN <<AddErr(Ptr(n.line), "containers.ports[] must be object")>>
      ELSE
        validatePortNumber(mv, "containerPort", "containers.ports.containerPort")
        \o (IF ~Has(mv, "protocol") THEN <<>>
            ELSE LET protoNode == mv.fields["protocol"]
                     r == getScalarString(protoNode)
                 IN  IF ~r.ok
                     THEN <<AddErr(Ptr(protoNode.line),
                                   "containers.ports.protocol must be string")>>
                     ELSE IF r.s # "TCP" /\ r.s # "UDP"
                     THEN <<AddErr(Ptr(protoNode.line),
                                   "containers.ports.protocol has unsupported value '"
                                     \o r.s \o "'")>>
                     ELSE <<>>)

validateProbe(n, prefix) ==
  LET mv == getMapping(n)
  IN  IF ~mv.ok THEN <<AddErr(Ptr(n.line), prefix \o " must be object")>>
      ELSE IF ~Has(mv, "httpGet") THEN <<AddErr(Nil, prefix \o ".httpGet is required")>>
      ELSE <<Call("validateHTTPGet", mv.fields["httpGet"], prefix \o ".httpGet")>>

validateHTTPGet(n, prefix) ==
  LET mv == getMapping(n)
  IN  IF ~mv.ok THEN <<AddErr(Ptr(n.line), prefix \o " must be object")>>
      ELSE
        (IF ~Has(mv, "path") THEN <<AddErr(Nil, prefix \o ".path is required")>>
         ELSE LET pathNode == mv.fields["path"]
                  r == getScalarString(pathNode)
              IN  IF ~r.ok
                  THEN <<AddErr(Ptr(pathNode.line), prefix \o ".path must be string")>>
                  ELSE IF ~HasSlashPrefix(r.s)
                  THEN <<AddErr(Ptr(pathNode.line),
                                prefix \o ".path has invalid format '" \o r.s \o "'")>>
                  ELSE <<>>)
        \o validatePortNumber(mv, "port", prefix \o ".port")

validateResources(n) ==
  LET mv == getMapping(n)
  IN  IF ~mv.ok THEN <<AddErr(Ptr(n.line), "containers.resources must be object")>>
      ELSE
        (IF Has(mv, "requests")
         THEN <<Call("validateResourceSet", mv.fields["requests"],
                     "containers.resources.requests")>>
         ELSE <<>>)
        \o (IF Has(mv, "limits")
            THEN <<Call("validateResourceSet", mv.fields["limits"],
                        "containers.resources.limits")>>
            ELSE <<>>)

\* The cpu case of validateResourceSet's switch.
validateCPU(val, prefix) ==
  LET r == getScalarString(val)
  IN  IF ~r.ok THEN <<AddErr(Ptr(val.line), prefix \o ".cpu must be int")>>
      ELSE IF Atoi(r.s).err THEN <<AddErr(Ptr(val.line), prefix \o ".cpu must be int")>>
      ELSE <<>>

\* The memory case of validateResourceSet's switch.
validateMemory(val, prefix) ==
  LET r == getScalarString(val)
  IN  IF ~r.ok THEN <<AddErr(Ptr(val.line), prefix \o ".memory must be string")>>
      ELSE IF ~reMem(r.s)
      THEN <<AddErr(Ptr(val.line),
                    prefix \o ".memory has invalid format '" \o r.s \o "'")>>
      ELSE <<>>

\* order: the order in which the range over mv.fields visits the keys.
validateResourceSet(n, prefix, order) ==
  LET mv == getMapping(n)
      resource(key) ==
        CASE key = "cpu" -> validateCPU(mv.fields[key], prefix)
          [] key = "memory" -> validateMemory(mv.fields[key], prefix)
          [] OTHER -> <<>>
  IN  IF ~mv.ok THEN <<AddErr(Ptr(n.line), prefix \o " must be object")>>
      ELSE ForEach(order, resource)

-----------------------------------------------------------------------------
(* The documents.  yaml.Unmarshal is the external parser; the model gives  *)
(* it a family of manifests, each the base manifest below with some of its *)
(* fields altered.  A manifest is named by the variant it takes of every   *)
(* field (the record `file`); Unmarshal(file) is its node tree.  A key     *)
(* stands on its own line and its value on the next one, so that no value  *)
(* shares a line with the mapping that holds it.                           *)

\* The pair of a mapping: the key (a string scalar on line l) and its value.
KV(l, key, val) == <<StrS(l, key), val>>

Variants ==
  [root |-> <<"map", "seq", "empty">>,
   api |-> <<"ok", "missing", "bad", "notscalar", "dupbad", "dupok">>,
   kind |-> <<"ok", "missing", "bad">>,
   meta |-> <<"ok", "missing", "notmap">>,
   name |-> <<"ok", "missing", "notscalar">>,
   ns |-> <<"absent", "ok", "notscalar">>,
   labels |-> <<"absent", "ok", "notmap", "bad1", "bad2">>,
   spec |-> <<"ok", "missing", "notmap">>,
   os |-> <<"absent", "upper", "bad", "obj", "objnoname", "seq">>,
   conts |-> <<"ok", "missing", "notseq", "empty">>,
   first |-> <<"absent", "ok", "notmap", "badname">>,
   cname |-> <<"ok", "missing", "bad">>,
   image |-> <<"ok", "missing", "bad">>,
   ports |-> <<"ok", "absent", "notseq">>,
   cport |-> <<"ok", "missing", "nonint", "zero", "over", "max", "entrynotmap", "dupok">>,
   proto |-> <<"absent", "udp", "bad">>,
   p2port |-> <<"ok", "over">>,
   ready |-> <<"ok", "absent", "notmap", "nohttpget">>,
   path |-> <<"ok", "missing", "bad">>,
   rport |-> <<"ok", "nonint", "over", "neg">>,
   live |-> <<"absent", "ok">>,
   res |-> <<"ok", "missing", "notmap">>,
   req |-> <<"ok", "absent", "notmap">>,
   cpu |-> <<"ok", "quoted", "nonint", "notscalar">>,
   mem |-> <<"ok", "bad", "notscalar">>,
   lim |-> <<"absent", "ok", "bothbad">>]

Fields == DOMAIN Variants

\* The base manifest: a valid pod with one container.
Base == [s \in Fields |-> Variants[s][1]]

Alterations == UNION {{<<s, Variants[s][i]>> : i \in 2..Len(Variants[s])} : s \in Fields}

\* The manifests that differ from the base one in at most k fields.
RECURSIVE FilesWithin(_)
FilesWithin(k) ==
  IF k = 0 THEN {Base}
  ELSE LET P == FilesWithin(k - 1)
       IN  P \cup {[f EXCEPT ![a[1]] = a[2]] : f \in P, a \in Alterations}

ApiPairs(v) ==
  CASE v = "ok" -> KV(10, "apiVersion", StrS(11, "v1"))
    [] v = "missing" -> <<>>
    [] v = "bad" -> KV(10, "apiVersion", StrS(11, "v2"))
    [] v = "notscalar" -> KV(10, "apiVersion", Sequence(11, <<StrS(12, "v1")>>))
    [] v = "dupbad" -> KV(10, "apiVersion", StrS(11, "v1"))
                       \o KV(13, "apiVersion", StrS(14, "v2"))
    [] v = "dupok" -> KV(10, "apiVersion", StrS(11, "v2"))
                      \o KV(13, "apiVersion", StrS(14, "v1"))

KindPairs(v) ==
  CASE v = "ok" -> KV(20, "kind", StrS(21, "Pod"))
    [] v = "missing" -> <<>>
    [] v = "bad" -> KV(20, "kind", StrS(21, "Deployment"))

NamePairs(v) ==
  CASE v = "ok" -> KV(40, "name", StrS(41, "web"))
    [] v = "missing" -> <<>>
    [] v = "notscalar" -> KV(40, "name", Sequence(41, <<StrS(42, "web")>>))

NamespacePairs(v) ==
  CASE v = "absent" -> <<>>
    [] v = "ok" -> KV(50, "namespace", StrS(51, "prod"))
    [] v = "notscalar" -> KV(50, "namespace", Mapping(51, KV(52, "a", StrS(53, "b"))))

LabelsPairs(v) ==
  CASE v = "absent" -> <<>>
    [] v = "ok" -> KV(60, "labels", Mapping(61, KV(62, "app", StrS(63, "web"))
                                                \o KV(64, "tier", StrS(65, "front"))))
    [] v = "notmap" -> KV(60, "labels", StrS(61, "web"))
    [] v = "bad1" -> KV(60, "labels", Mapping(61, KV(62, "app", Sequence(63, <<>>))
                                                  \o KV(64, "tier", StrS(65, "front"))))
    [] v = "bad2" -> KV(60, "labels", Mapping(61, KV(62, "app", Sequence(63, <<>>))
                                                  \o KV(64, "tier", Sequence(65, <<>>))))

MetaPairs(f) ==
  CASE f.meta = "ok" ->
         KV(30, "metadata",
            Mapping(31, NamePairs(f.name) \o NamespacePairs(f.ns) \o LabelsPairs(f.labels)))
    [] f.meta = "missing" -> <<>>
    [] f.meta = "notmap" -> KV(30, "metadata", StrS(31, "web"))

OsPairs(v) ==
  CASE v = "absent" -> <<>>
    [] v = "upper" -> KV(80, "os", StrS(81, "Windows"))
    [] v = "bad" -> KV(80, "os", StrS(81, "darwin"))
    [] v = "obj" -> KV(80, "os", Mapping(81, KV(82, "name", StrS(83, "linux"))))
    [] v = "objnoname" -> KV(80, "os", Mapping(81, KV(82, "family", StrS(83, "linux"))))
    [] v = "seq" -> KV(80, "os", Sequence(81, <<StrS(82, "linux")>>))

\* The container that precedes the main one, when the manifest has it.
FirstContainer(v) ==
  CASE v = "absent" -> <<>>
    [] v = "ok" ->
         <<Mapping(100, KV(101, "name", StrS(102, "db_1"))
                        \o KV(103, "image", StrS(104, "registry.bigbrother.io/db:V2"))
                        \o KV(105, "resources", Mapping(106, <<>>)))>>
    [] v = "notmap" -> <<StrS(100, "db_1")>>
    [] v = "badname" ->
         <<Mapping(100, KV(101, "name", StrS(102, "web_"))
                        \o KV(103, "image", StrS(104, "registry.bigbrother.io/db:V2"))
                        \o KV(105, "resources", Mapping(106, <<>>)))>>

CNamePairs(v) ==
  CASE v = "ok" -> KV(120, "name", StrS(121, "web_app"))
    [] v = "missing" -> <<>>
    [] v = "bad" -> KV(120, "name", StrS(121, "My-Container"))

ImagePairs(v) ==
  CASE v = "ok" -> KV(130, "image", StrS(131, "registry.bigbrother.io/web:1.0"))
    [] v = "missing" -> <<>>
    [] v = "bad" -> KV(130, "image", StrS(131, "nginx:latest"))

CPortPairs(v) ==
  CASE v = "ok" -> KV(151, "containerPort", IntS(152, "80"))
    [] v = "missing" -> <<>>
    [] v = "nonint" -> KV(151, "containerPort", StrS(152, "abc"))
    [] v = "zero" -> KV(151, "containerPort", IntS(152, "0"))
    [] v = "over" -> KV(151, "containerPort", IntS(152, "65536"))
    [] v = "max" -> KV(151, "containerPort", IntS(152, "65535"))
    [] v = "dupok" -> KV(151, "containerPort", IntS(152, "0"))
                      \o KV(157, "containerPort", IntS(158, "80"))

ProtoPairs(v) ==
  CASE v = "absent" -> <<>>
    [] v = "udp" -> KV(153, "protocol", StrS(154, "UDP"))
    [] v = "bad" -> KV(153, "protocol", StrS(154, "tcp"))

PortEntries(f) ==
  <<IF f.cport = "entrynotmap" THEN IntS(150, "80")
    ELSE Mapping(150, CPortPairs(f.cport) \o ProtoPairs(f.proto)),
    Mapping(160, KV(161, "containerPort",
                    IntS(162, IF f.p2port = "ok" THEN "8080" ELSE "70000")))>>

PortsPairs(f) ==
  CASE f.ports = "ok" -> KV(140, "ports", Sequence(141, PortEntries(f)))
    [] f.ports = "absent" -> <<>>
    [] f.ports = "notseq" -> KV(140, "ports", Mapping(141, KV(142, "http", IntS(143, "80"))))

PathPairs(v) ==
  CASE v = "ok" -> KV(174, "path", StrS(175, "/ready"))
    [] v = "missing" -> <<>>
    [] v = "bad" -> KV(174, "path", StrS(175, "ready"))

RPortPairs(v) ==
  CASE v = "ok" -> KV(176, "port", IntS(177, "8080"))
    [] v = "nonint" -> KV(176, "port", StrS(177, "http"))
    [] v = "over" -> KV(176, "port", IntS(177, "65536"))
    [] v = "neg" -> KV(176, "port", IntS(177, "-1"))

ReadyPairs(f) ==
  CASE f.ready = "ok" ->
         KV(170, "readinessProbe",
            Mapping(171, KV(172, "httpGet",
                            Mapping(173, PathPairs(f.path) \o RPortPairs(f.rport)))))
    [] f.ready = "absent" -> <<>>
    [] f.ready = "notmap" -> KV(170, "readinessProbe", StrS(171, "/ready"))
    [] f.ready = "nohttpget" ->
         KV(170, "readinessProbe", Mapping(171, KV(172, "exec", StrS(173, "/ready"))))

LivePairs(v) ==
  CASE v = "absent" -> <<>>
    [] v = "ok" ->
         KV(180, "livenessProbe",
            Mapping(181, KV(182, "httpGet",
                            Mapping(183, KV(184, "path", StrS(185, "/live"))
                                         \o KV(186, "port", IntS(187, "8080"))))))

CpuPairs(v) ==
  CASE v = "ok" -> KV(202, "cpu", IntS(203, "1"))
    [] v = "quoted" -> KV(202, "cpu", StrS(203, "4"))
    [] v = "nonint" -> KV(202, "cpu", StrS(203, "abc"))
    [] v = "notscalar" -> KV(202, "cpu", Sequence(203, <<IntS(203, "1")>>))

MemPairs(v) ==
  CASE v = "ok" -> KV(204, "memory", StrS(205, "128Mi"))
    [] v = "bad" -> KV(204, "memory", StrS(205, "128M"))
    [] v = "notscalar" -> KV(204, "memory", Sequence(205, <<>>))

ReqPairs(f) ==
  CASE f.req = "ok" -> KV(200, "requests", Mapping(201, CpuPairs(f.cpu) \o MemPairs(f.mem)))
    [] f.req = "absent" -> <<>>
    [] f.req = "notmap" -> KV(200, "requests", StrS(201, "1"))

LimPairs(v) ==
  CASE v = "absent" -> <<>>
    [] v = "ok" ->
         KV(210, "limits", Mapping(211, KV(212, "cpu", IntS(213, "2"))
                                        \o KV(214, "memory", StrS(215, "256Mi"))
                                        \o KV(216, "gpu", StrS(217, "one"))))
    [] v = "bothbad" ->
         KV(210, "limits", Mapping(211, KV(212, "cpu", StrS(213, "1.5"))
                                        \o KV(214, "memory", StrS(215, "Mi"))))

ResPairs(f) ==
  CASE f.res = "ok" -> KV(190, "resources", Mapping(191, ReqPairs(f) \o LimPairs(f.lim)))
    [] f.res = "missing" -> <<>>
    [] f.res = "notmap" -> KV(190, "resources", Sequence(191, <<>>))

MainContainer(f) ==
  Mapping(110, CNamePairs(f.cname) \o ImagePairs(f.image) \o PortsPairs(f)
               \o ReadyPairs(f) \o LivePairs(f.live) \o ResPairs(f))

ContsPairs(f) ==
  CASE f.conts = "ok" ->
         KV(90, "containers", Sequence(91, FirstContainer(f.first) \o <<MainContainer(f)>>))
    [] f.conts = "missing" -> <<>>
    [] f.conts = "notseq" -> KV(90, "containers", MainContainer(f))
    [] f.conts = "empty" -> KV(90, "containers", Sequence(91, <<>>))

SpecPairs(f) ==
  CASE f.spec = "ok" -> KV(70, "spec", Mapping(71, OsPairs(f.os) \o ContsPairs(f)))
    [] f.spec = "missing" -> <<>>
    [] f.spec = "notmap" -> KV(70, "spec", Sequence(71, <<MainContainer(f)>>))

TopMapping(f) ==
  Mapping(3, ApiPairs(f.api) \o KindPairs(f.kind) \o MetaPairs(f) \o SpecPairs(f))

\* yaml.Unmarshal(data, &root): the document node of the manifest, or the
\* zero node for the empty manifest.
Unmarshal(f) ==
  CASE f.root = "map" -> Document(<<TopMapping(f)>>)
    [] f.root = "seq" -> Document(<<Sequence(2, <<TopMapping(f)>>)>>)
    [] f.root = "empty" -> ZeroNode

-----------------------------------------------------------------------------
(* The machine.                                                            *)

\* How many fields of the base manifest a manifest may alter.
MaxAltered == 2

\* How many times main is run on one manifest.
MaxRuns == 2

Files == FilesWithin(MaxAltered)

filename == "pod.yaml"

hasErrs(es) == Len(es) > 0

\* flush: one line of stderr per diagnostic, "<file>:<line> <msg>" for a
\* diagnostic with a line and "<file>: <msg>" for one without.
flush(es) ==
  [i \in 1..Len(es) |->
     IF es[i].line # Nil THEN <<filename, ":", es[i].line[1], " ", es[i].msg>>
     ELSE <<filename, ": ", es[i].msg>>]

\* The statement lists a call can leave: one per order in which its range
\* over a map can visit the keys.
Expand(t) ==
  CASE t.op = "validateTop" -> {validateTop(t.n)}
    [] t.op = "validateObjectMeta" ->
         {validateObjectMeta(t.n, o) : o \in RangeOrders(labelsFields(t.n))}
    [] t.op = "validatePodSpec" -> {validatePodSpec(t.n)}
    [] t.op = "validateContainer" -> {validateContainer(t.n)}
    [] t.op = "validateContainerPort" -> {validateContainerPort(t.n)}
    [] t.op = "validateProbe" -> {validateProbe(t.n, t.prefix)}
    [] t.op = "validateHTTPGet" -> {validateHTTPGet(t.n, t.prefix)}
    [] t.op = "validateResources" -> {validateResources(t.n)}
    [] t.op = "validateResourceSet" ->
         {validateResourceSet(t.n, t.prefix, o) : o \in RangeOrders(getMapping(t.n).fields)}

Init ==
  /\ file \in Files
  /\ root = ZeroNode
  /\ errs = <<>>
  /\ stack = <<>>
  /\ pc = "main"
  /\ stderr = <<>>
  /\ exitCode = Nil
  /\ runs = <<>>

\* main up to the call of validateTop: parse the file, make the vCtx.
MainStart ==
  /\ pc = "main"
  /\ root' = Unmarshal(file)
  /\ errs' = <<>>
  /\ stack' = <<Call("validateTop", root', "")>>
  /\ pc' = "validate"
  /\ UNCHANGED <<file, stderr, exitCode, runs>>

\* The call on top of the agenda is a call of op.
Calls(op) == pc = "validate" /\ stack # <<>> /\ Head(stack).op = op

\* The call on top of the agenda runs: its statements replace it.
Replace(items) ==
  /\ stack' = items \o Tail(stack)
  /\ UNCHANGED <<file, root, errs, pc, stderr, exitCode, runs>>

RunValidateTop ==
  /\ Calls("validateTop")
  /\ Replace(validateTop(Head(stack).n))

RunValidateObjectMeta ==
  /\ Calls("validateObjectMeta")
  /\ \E order \in RangeOrders(labelsFields(Head(stack).n)) :
       Replace(validateObjectMeta(Head(stack).n, order))

RunValidatePodSpec ==
  /\ Calls("validatePodSpec")
  /\ Replace(validatePodSpec(Head(stack).n))

RunValidateContainer ==
  /\ Calls("validateContainer")
  /\ Replace(validateContainer(Head(stack).n))

RunValidateContainerPort ==
  /\ Calls("validateContainerPort")
  /\ Replace(validateContainerPort(Head(stack).n))

RunValidateProbe ==
  /\ Calls("validateProbe")
  /\ Replace(validateProbe(Head(stack).n, Head(stack).prefix))

RunValidateHTTPGet ==
  /\ Calls("validateHTTPGet")
  /\ Replace(validateHTTPGet(Head(stack).n, Head(stack).prefix))

RunValidateResources ==
  /\ Calls("validateResources")
  /\ Replace(validateResources(Head(stack).n))

RunValidateResourceSet ==
  /\ Calls("validateResourceSet")
  /\ \E order \in RangeOrders(getMapping(Head(stack).n).fields) :
       Replace(validateResourceSet(Head(stack).n, Head(stack).prefix, order))

\* v.addErr(line, msg)
RunAddErr ==
  /\ Calls("addErr")
  /\ errs' = Append(errs, [line |-> Head(stack).line, msg |-> Head(stack).msg])
  /\ stack' = Tail(stack)
  /\ UNCHANGED <<file, root, pc, stderr, exitCode, runs>>

\* main after validateTop returned: flush and exit 1, or exit 0.
MainExit ==
  /\ pc = "validate"
  /\ stack = <<>>
  /\ IF hasErrs(errs)
     THEN stderr' = flush(errs) /\ exitCode' = Ptr(1)
     ELSE stderr' = stderr /\ exitCode' = Ptr(0)
  /\ pc' = "exit"
  /\ runs' = Append(runs, errs)
  /\ UNCHANGED <<file, root, errs, stack>>

\* The validator is run on the same file once more.
Reinvoke ==
  /\ pc = "exit"
  /\ Len(runs) < MaxRuns
  /\ pc' = "main"
  /\ root' = ZeroNode
  /\ errs' = <<>>
  /\ stderr' = <<>>
  /\ exitCode' = Nil
  /\ UNCHANGED <<file, stack, runs>>

Validate ==
  \/ RunValidateTop
  \/ RunValidateObjectMeta
  \/ RunValidatePodSpec
  \/ RunValidateContainer
  \/ RunValidateContainerPort
  \/ RunValidateProbe
  \/ RunValidateHTTPGet
  \/ RunValidateResources
  \/ RunValidateResourceSet
  \/ RunAddErr

Next == MainStart \/ Validate \/ MainExit

Spec == Init /\ [][Next]_vars

\* The same, with the validator run again on the file.
NextRerun == Next \/ Reinvoke

SpecRerun == Init /\ [][NextRerun]_vars

-----------------------------------------------------------------------------
(* What the properties below are stated with.                              *)

Done == pc = "exit"

Diag(l, m) == [line |-> l, msg |-> m]

\* The root object of the parsed document, when there is one.
HasObj == root.kind = DocumentNode /\ Len(root.content) > 0
Obj == root.content[1]

\* The value nodes of the tree under n: for every pair of a mapping the
\* key's text, the value node and the line of the mapping that holds it; for
\* every element of a sequence the same with the key "[]".
RECURSIVE ValueNodes(_)
ValueNodes(n) ==
  CASE n.kind = MappingNode ->
         UNION {{[key |-> n.content[2 * i - 1].value, node |-> n.content[2 * i],
                  parent |-> n.line]}
                \cup ValueNodes(n.content[2 * i]) : i \in 1..(Len(n.content) \div 2)}
    [] n.kind = SequenceNode ->
         UNION {{[key |-> "[]", node |-> n.content[i], parent |-> n.line]}
                \cup ValueNodes(n.content[i]) : i \in 1..Len(n.content)}
    [] n.kind = DocumentNode ->
         UNION {{[key |-> "document", node |-> n.content[i], parent |-> n.line]}
                \cup ValueNodes(n.content[i]) : i \in 1..Len(n.content)}
    [] OTHER -> {}

\* The diagnostics of es that carry line l, in order.
RECURSIVE DiagsAt(_, _)
DiagsAt(es, l) ==
  IF es = <<>> THEN <<>>
  ELSE (IF Head(es).line = Ptr(l) THEN <<Head(es)>> ELSE <<>>) \o DiagsAt(Tail(es), l)

\* The final accumulators of running the statements st to the end.
RECURSIVE Outcomes(_)
Outcomes(st) ==
  IF st = <<>> THEN {<<>>}
  ELSE IF Head(st).op = "addErr"
  THEN {<<Diag(Head(st).line, Head(st).msg)>> \o r : r \in Outcomes(Tail(st))}
  ELSE UNION {Outcomes(items \o Tail(st)) : items \in Expand(Head(st))}

\* The sequences made of one member of each set of ss, in order.
RECURSIVE ConcatSets(_)
ConcatSets(ss) ==
  IF ss = <<>> THEN {<<>>}
  ELSE {a \o b : a \in Head(ss), b \in ConcatSets(Tail(ss))}

\* s ends with t.
EndsWith(s, t) ==
  Len(s) >= Len(t) /\ SubSeq(s, Len(s) - Len(t) + 1, Len(s)) = t

-----------------------------------------------------------------------------
(* The diagnostics the schema asks for, manifest by manifest: for every    *)
(* variant of every field the diagnostics its rule gives, in the order of  *)
(* the schema's fields.                                                    *)

ExpApi(v) ==
  CASE v = "missing" -> <<Diag(Nil, "apiVersion is required")>>
    [] v = "bad" -> <<Diag(Ptr(11), "apiVersion has unsupported value 'v2'")>>
    [] v = "notscalar" -> <<Diag(Ptr(11), "apiVersion must be string")>>
    [] v = "dupbad" -> <<Diag(Ptr(14), "apiVersion has unsupported value 'v2'")>>
    [] OTHER -> <<>>

ExpKind(v) ==
  CASE v = "missing" -> <<Diag(Nil, "kind is required")>>
    [] v = "bad" -> <<Diag(Ptr(21), "kind has unsupported value 'Deployment'")>>
    [] OTHER -> <<>>

ExpLabels(v) ==
  CASE v = "notmap" -> <<Diag(Ptr(61), "metadata.labels must be object")>>
    [] v = "bad1" -> <<Diag(Ptr(63), "metadata.labels.app must be string")>>
    [] v = "bad2" -> <<Diag(Ptr(63), "metadata.labels.app must be string"),
                       Diag(Ptr(65), "metadata.labels.tier must be string")>>
    [] OTHER -> <<>>

ExpMeta(f) ==
  CASE f.meta = "missing" -> <<Diag(Nil, "metadata is required")>>
    [] f.meta = "notmap" -> <<Diag(Ptr(31), "metadata must be object")>>
    [] OTHER ->
         (CASE f.name = "missing" -> <<Diag(Nil, "metadata.name is required")>>
            [] f.name = "notscalar" -> <<Diag(Ptr(41), "metadata.name must be string")>>
            [] OTHER -> <<>>)
         \o (IF f.ns = "notscalar"
             THEN <<Diag(Ptr(51), "metadata.namespace must be string")>>
             ELSE <<>>)
         \o ExpLabels(f.labels)

ExpOs(v) ==
  CASE v = "bad" -> <<Diag(Ptr(81), "spec.os has unsupported value 'darwin'")>>
    [] v = "objnoname" -> <<Diag(Nil, "spec.os.name is required")>>
    [] v = "seq" -> <<Diag(Ptr(81), "spec.os must be string or object")>>
    [] OTHER -> <<>>

ExpFirst(v) ==
  CASE v = "notmap" -> <<Diag(Ptr(100), "containers[] must be object")>>
    [] v = "badname" -> <<Diag(Ptr(102), "containers.name has invalid format 'web_'")>>
    [] OTHER -> <<>>

ExpCPort(v) ==
  CASE v = "missing" -> <<Diag(Nil, "containers.ports.containerPort is required")>>
    [] v = "nonint" -> <<Diag(Ptr(152), "containers.ports.containerPort must be int")>>
    [] v \in {"zero", "over"} ->
         <<Diag(Ptr(152), "containers.ports.containerPort value out of range")>>
    [] OTHER -> <<>>

ExpPorts(f) ==
  CASE f.ports = "absent" -> <<>>
    [] f.ports = "notseq" -> <<Diag(Ptr(141), "containers.ports must be array")>>
    [] OTHER ->
         (IF f.cport = "entrynotmap"
          THEN <<Diag(Ptr(150), "containers.ports[] must be object")>>
          ELSE ExpCPort(f.cport)
               \o (IF f.proto = "bad"
                   THEN <<Diag(Ptr(154),
                               "containers.ports.protocol has unsupported value 'tcp'")>>
                   ELSE <<>>))
         \o (IF f.p2port = "over"
             THEN <<Diag(Ptr(162), "containers.ports.containerPort value out of range")>>
             ELSE <<>>)

ExpReady(f) ==
  CASE f.ready = "absent" -> <<>>
    [] f.ready = "notmap" -> <<Diag(Ptr(171), "containers.readinessProbe must be object")>>
    [] f.ready = "nohttpget" ->
         <<Diag(Nil, "containers.readinessProbe.httpGet is required")>>
    [] OTHER ->
         (CASE f.path = "missing" ->
                 <<Diag(Nil, "containers.readinessProbe.httpGet.path is required")>>
            [] f.path = "bad" ->
                 <<Diag(Ptr(175),
                        "containers.readinessProbe.httpGet.path has invalid format 'ready'")>>
            [] OTHER -> <<>>)
         \o (CASE f.rport = "nonint" ->
                    <<Diag(Ptr(177), "containers.readinessProbe.httpGet.port must be int")>>
               [] f.rport \in {"over", "neg"} ->
                    <<Diag(Ptr(177),
                           "containers.readinessProbe.httpGet.port value out of range")>>
               [] OTHER -> <<>>)

\* A cpu written as a quoted numeral is a string at the source level: the
\* schema asks for "must be int".
ExpCpu(v) ==
  IF v \in {"quoted", "nonint", "notscalar"}
  THEN <<Diag(Ptr(203), "containers.resources.requests.cpu must be int")>>
  ELSE <<>>

ExpMem(v) ==
  CASE v = "bad" ->
         <<Diag(Ptr(205), "containers.resources.requests.memory has invalid format '128M'")>>
    [] v = "notscalar" ->
         <<Diag(Ptr(205), "containers.resources.requests.memory must be string")>>
    [] OTHER -> <<>>

ExpLim(v) ==
  IF v = "bothbad"
  THEN <<Diag(Ptr(213), "containers.resources.limits.cpu must be int"),
         Diag(Ptr(215), "containers.resources.limits.memory has invalid format 'Mi'")>>
  ELSE <<>>

ExpRes(f) ==
  CASE f.res = "missing" -> <<Diag(Nil, "containers.resources is required")>>
    [] f.res = "notmap" -> <<Diag(Ptr(191), "containers.resources must be object")>>
    [] OTHER ->
         (CASE f.req = "absent" -> <<>>
            [] f.req = "notmap" ->
                 <<Diag(Ptr(201), "containers.resources.requests must be object")>>
            [] OTHER -> ExpCpu(f.cpu) \o ExpMem(f.mem))
         \o ExpLim(f.lim)

ExpMain(f) ==
  (CASE f.cname = "missing" -> <<Diag(Nil, "containers.name is required")>>
     [] f.cname = "bad" ->
          <<Diag(Ptr(121), "containers.name has invalid format 'My-Container'")>>
     [] OTHER -> <<>>)
  \o (CASE f.image = "missing" -> <<Diag(Nil, "containers.image is required")>>
        [] f.image = "bad" ->
             <<Diag(Ptr(131), "containers.image has invalid format 'nginx:latest'")>>
        [] OTHER -> <<>>)
  \o ExpPorts(f) \o ExpReady(f) \o ExpRes(f)

\* The one diagnostic of a containers field that holds no container.
ExpNoContainers(v) ==
  CASE v = "missing" -> Diag(Nil, "spec.containers is required")
    [] v = "notseq" -> Diag(Ptr(110), "spec.containers must be array")
    [] v = "empty" -> Diag(Ptr(91), "spec.containers must not be empty")

ExpSpec(f) ==
  CASE f.spec = "missing" -> <<Diag(Nil, "spec is required")>>
    [] f.spec = "notmap" -> <<Diag(Ptr(71), "spec must be object")>>
    [] OTHER ->
         ExpOs(f.os)
         \o (IF f.conts = "ok" THEN ExpFirst(f.first) \o ExpMain(f)
             ELSE <<ExpNoContainers(f.conts)>>)

Expected(f) ==
  CASE f.root = "empty" -> <<Diag(Nil, "document is required")>>
    [] f.root = "seq" -> <<Diag(Ptr(2), "document must be mapping")>>
    [] OTHER -> ExpApi(f.api) \o ExpKind(f.kind) \o ExpMeta(f) \o ExpSpec(f)

\* The violations of the manifest lie in different subtrees: no labels
\* mapping and no resource set holds two of them.
Independent(f) ==
  /\ f.labels # "bad2"
  /\ f.lim # "bothbad"
  /\ ~(f.cpu # "ok" /\ f.mem # "ok")

\* The manifest has a cpu written as a quoted numeral.
TaggedCpu(f) ==
  /\ f.root = "map" /\ f.spec = "ok" /\ f.conts = "ok" /\ f.res = "ok" /\ f.req = "ok"
  /\ f.cpu = "quoted"

\* The manifest satisfies every rule of the schema.
Conforms(f) ==
  /\ f.root = "map" /\ f.api = "ok" /\ f.kind = "ok"
  /\ f.meta = "ok" /\ f.name = "ok" /\ f.ns \in {"absent", "ok"}
  /\ f.labels \in {"absent", "ok"}
  /\ f.spec = "ok" /\ f.os \in {"absent", "upper", "obj"}
  /\ f.conts = "ok" /\ f.first \in {"absent", "ok"}
  /\ f.cname = "ok" /\ f.image = "ok"
  /\ \/ f.ports = "absent"
     \/ /\ f.ports = "ok" /\ f.cport \in {"ok", "max"}
        /\ f.proto \in {"absent", "udp"} /\ f.p2port = "ok"
  /\ \/ f.ready = "absent"
     \/ f.ready = "ok" /\ f.path = "ok" /\ f.rport = "ok"
  /\ f.res = "ok"
  /\ \/ f.req = "absent"
     \/ f.req = "ok" /\ f.cpu = "ok" /\ f.mem = "ok"
  /\ f.lim \in {"absent", "ok"}

-----------------------------------------------------------------------------
(* C1.  Collect-all completeness: a manifest whose root is a mapping and   *)
(* whose k violations lie in different subtrees ends the run with exactly  *)
(* the k diagnostics of those violations in the accumulator, in the order  *)
(* of the schema's fields.                                                 *)
CollectAll ==
  (Done /\ file.root = "map" /\ Independent(file)) => errs = Expected(file)

\* The same for the manifests without a quoted cpu.
CollectAllButTaggedCpu ==
  (Done /\ file.root = "map" /\ Independent(file) /\ ~TaggedCpu(file))
    => errs = Expected(file)

(* C5.  No false positives: a manifest that satisfies every rule leaves    *)
(* the accumulator empty, flushes nothing and exits with status 0.         *)
NoFalsePositives ==
  (Done /\ Conforms(file))
    => errs = <<>> /\ ~hasErrs(errs) /\ stderr = <<>> /\ exitCode = Ptr(0)

\* A conforming manifest that uses the optional fields has been validated.
NoFalsePositivesWitness ==
  /\ Done /\ Conforms(file)
  /\ file.ports = "ok" /\ file.cport = "max" /\ file.lim = "ok"

(* C9.  A root object that is not a mapping gives exactly one diagnostic,  *)
(* "document must be mapping" at the root object's line, and no routine    *)
(* of the fields below it is ever called.                                  *)
RootNotMapping ==
  (HasObj /\ Obj.kind # MappingNode)
    => /\ \A i \in 1..Len(stack) :
            stack[i].op \in {"validateTop", "addErr"}
       /\ \A i \in 1..Len(errs) :
            errs[i] = Diag(Ptr(Obj.line), "document must be mapping")
       /\ Done => errs = <<Diag(Ptr(Obj.line), "document must be mapping")>>

\* A sequence root that holds a manifest without apiVersion has been validated.
RootNotMappingWitness ==
  /\ Done /\ HasObj /\ Obj.kind = SequenceNode
  /\ file.api = "missing"
  /\ Len(errs) = 1

-----------------------------------------------------------------------------
(* The nodes the schema reaches, read off the tree with the last           *)
(* declaration of a key standing for the key.                              *)

\* The pairs of mapping n that declare key, by pair number.
Decls(n, key) == {i \in 1..(Len(n.content) \div 2) : n.content[2 * i - 1].value = key}

LastDecl(n, key) == CHOOSE i \in Decls(n, key) : \A j \in Decls(n, key) : j <= i

\* The values of field key in the mappings among the nodes N.
F(N, key) ==
  {n.content[2 * LastDecl(n, key)] :
     n \in {m \in N : m.kind = MappingNode /\ Decls(m, key) # {}}}

\* The elements of the sequences among the nodes N.
Elems(N) ==
  UNION {{n.content[i] : i \in 1..Len(n.content)} : n \in {m \in N : m.kind = SequenceNode}}

Mappings(N) == {n \in N : n.kind = MappingNode}

RootObjs == IF HasObj THEN {Obj} ELSE {}
SpecNodes == Mappings(F(RootObjs, "spec"))
ContainersNodes == F(SpecNodes, "containers")
ContainerNodes == Mappings(Elems(ContainersNodes))
PortEntryNodes == Mappings(Elems(F(ContainerNodes, "ports")))

\* The port numbers the schema reaches, each with its qualified name.
PortNumbers ==
  {[node |-> n, field |-> "containers.ports.containerPort"] :
     n \in F(PortEntryNodes, "containerPort")}
  \cup UNION {
    {[node |-> n, field |-> "containers." \o pk \o ".httpGet.port"] :
       n \in F(Mappings(F(Mappings(F(ContainerNodes, pk)), "httpGet")), "port")} :
    pk \in {"readinessProbe", "livenessProbe"}}

\* The cpu values the schema reaches, each with the name of its resource set.
CpuValues ==
  UNION {
    {[node |-> n, prefix |-> "containers.resources." \o rk] :
       n \in F(Mappings(F(Mappings(F(ContainerNodes, "resources")), rk)), "cpu")} :
    rk \in {"requests", "limits"}}

\* The integer a port text of the model's manifests stands for: <<n>>, or
\* <<>> for a text that is no integer.
PortValue(s) ==
  CASE s = "80" -> <<80>>
    [] s = "8080" -> <<8080>>
    [] s = "0" -> <<0>>
    [] s = "-1" -> <<0 - 1>>
    [] s = "65535" -> <<65535>>
    [] s = "65536" -> <<65536>>
    [] s = "70000" -> <<70000>>
    [] OTHER -> <<>>

\* The texts among the cpu values of the model's manifests that are integers.
IntegerTexts == {"1", "2", "4"}

\* The lines of a node and of everything below it.
LinesOf(n) == {n.line} \cup {vn.node.line : vn \in ValueNodes(n)}

\* A port entry with nothing wrong: a port number in range, and a protocol
\* that is absent, TCP or UDP.
ValidPortEntry(p) ==
  /\ \E n \in F({p}, "containerPort") :
       /\ n.kind = ScalarNode
       /\ PortValue(n.value) # <<>>
       /\ PortValue(n.value)[1] > 0
       /\ PortValue(n.value)[1] < 65536
  /\ \A n \in F({p}, "protocol") : n.kind = ScalarNode /\ n.value \in {"TCP", "UDP"}

(* C7.  The port rule, for containerPort and httpGet.port alike: a scalar  *)
(* that is no integer gives exactly "must be int", one that is an integer  *)
(* out of 1..65535 gives exactly "value out of range", one in range gives  *)
(* nothing; and a valid port entry gives no diagnostic whatever its        *)
(* siblings give.                                                          *)
PortRule ==
  Done =>
    /\ \A pn \in PortNumbers :
         pn.node.kind = ScalarNode =>
           LET v == PortValue(pn.node.value)
               ds == DiagsAt(errs, pn.node.line)
           IN  IF v = <<>>
               THEN ds = <<Diag(Ptr(pn.node.line), pn.field \o " must be int")>>
               ELSE IF v[1] <= 0 \/ v[1] >= 65536
               THEN ds = <<Diag(Ptr(pn.node.line), pn.field \o " value out of range")>>
               ELSE ds = <<>>
    /\ \A p \in PortEntryNodes :
         ValidPortEntry(p) =>
           \A i \in 1..Len(errs) :
             errs[i].line = Nil \/ errs[i].line[1] \notin LinesOf(p)

\* A run over an out-of-range containerPort beside a valid sibling entry and
\* a non-numeric httpGet port has ended.
PortRuleWitness ==
  /\ Done
  /\ file.cport = "over" /\ file.rport = "nonint" /\ file.p2port = "ok"
  /\ Len(errs) = 2
  /\ Cardinality(PortNumbers) = 3

(* C3.  A cpu value that is a string at the source level gives exactly     *)
(* one "<prefix>.cpu must be int" at its line, and a cpu value gives no    *)
(* diagnostic only when it is an integer scalar whose text is an integer.  *)
TaggedCpuRejected ==
  Done =>
    \A cv \in CpuValues :
      LET ds == DiagsAt(errs, cv.node.line)
      IN  /\ (cv.node.kind = ScalarNode /\ cv.node.tag = StrTag)
                => ds = <<Diag(Ptr(cv.node.line), cv.prefix \o ".cpu must be int")>>
          /\ ds = <<>>
                => /\ cv.node.kind = ScalarNode
                   /\ cv.node.tag = IntTag
                   /\ cv.node.value \in IntegerTexts

(* C2.  Determinism: every run of the validator on one file ends with the  *)
(* same diagnostics in the same order.                                     *)
Deterministic == \A i, j \in 1..Len(runs) : runs[i] = runs[j]

-----------------------------------------------------------------------------
(* C4.  A diagnostic has no line exactly when it reports a missing         *)
(* required field; a diagnostic with a line carries the line of the value  *)
(* node of the field its message names, which is not the line of the       *)
(* mapping that holds the field.                                           *)

RequiredMsgs ==
  {fld \o " is required" :
     fld \in {"document", "apiVersion", "kind", "metadata", "metadata.name", "spec",
              "spec.os.name", "spec.containers", "containers.name", "containers.image",
              "containers.ports.containerPort",
              "containers.readinessProbe.httpGet",
              "containers.readinessProbe.httpGet.path",
              "containers.readinessProbe.httpGet.port",
              "containers.livenessProbe.httpGet",
              "containers.livenessProbe.httpGet.path",
              "containers.livenessProbe.httpGet.port",
              "containers.resources"}}

\* What a field's qualified name can start with.
Qualifiers ==
  {"", "metadata.", "metadata.labels.", "spec.", "spec.os.", "containers.",
   "containers.ports.", "containers.readinessProbe.",
   "containers.readinessProbe.httpGet.", "containers.livenessProbe.",
   "containers.livenessProbe.httpGet.", "containers.resources.",
   "containers.resources.requests.", "containers.resources.limits."}

\* What a message says of a present node n after the field's name.
Complaints(n) ==
  {" must be string", " must be int", " must be object", " must be array",
   " must not be empty", " must be string or object", " value out of range",
   " has unsupported value '" \o n.value \o "'",
   " has invalid format '" \o n.value \o "'"}

\* The messages that are about the value node vn of the tree.
MsgsAbout(vn) ==
  CASE vn.key = "[]" -> {"containers[] must be object", "containers.ports[] must be object"}
    [] vn.key = "document" -> {"document must be mapping"}
    [] OTHER -> {q \o vn.key \o c : q \in Qualifiers, c \in Complaints(vn.node)}

LineFidelity ==
  Done =>
    \A i \in 1..Len(errs) :
      /\ errs[i].line = Nil <=> errs[i].msg \in RequiredMsgs
      /\ errs[i].line # Nil =>
           \E vn \in {w \in ValueNodes(root) : w.node.line = errs[i].line[1]} :
             /\ errs[i].msg \in MsgsAbout(vn)
             /\ vn.parent # errs[i].line[1]

\* A run has ended with a diagnostic without a line and one with a line.
LineFidelityWitness ==
  /\ Done
  /\ file.cname = "missing" /\ file.image = "bad"
  /\ errs = <<Diag(Nil, "containers.name is required"),
              Diag(Ptr(131), "containers.image has invalid format 'nginx:latest'")>>

-----------------------------------------------------------------------------
(* C6.  A spec mapping whose containers field is missing, is no sequence   *)
(* or is an empty sequence gets exactly one diagnostic for that field      *)
(* (without a line when the field is missing, with the field's line        *)
(* otherwise), no container is validated, and the diagnostics of the os    *)
(* field, which stand before it, are recorded all the same.                *)

\* The diagnostic of the containers field of spec mapping sp, <<>> when the
\* field is a sequence with elements.
NoContainersDiag(sp) ==
  IF Decls(sp, "containers") = {}
  THEN <<Diag(Nil, "spec.containers is required")>>
  ELSE LET c == sp.content[2 * LastDecl(sp, "containers")]
       IN  IF c.kind # SequenceNode
           THEN <<Diag(Ptr(c.line), "spec.containers must be array")>>
           ELSE IF Len(c.content) = 0
           THEN <<Diag(Ptr(c.line), "spec.containers must not be empty")>>
           ELSE <<>>

ContainersMsgs ==
  {"spec.containers is required", "spec.containers must be array",
   "spec.containers must not be empty"}

NoContainers ==
  \A sp \in SpecNodes :
    (Obj.kind = MappingNode /\ NoContainersDiag(sp) # <<>>) =>
      /\ \A i \in 1..Len(stack) :
           stack[i].op \in {"validateTop", "validateObjectMeta", "validatePodSpec", "addErr"}
      /\ Done =>
           /\ EndsWith(errs, ExpOs(file.os) \o NoContainersDiag(sp))
           /\ Cardinality({i \in 1..Len(errs) : errs[i].msg \in ContainersMsgs}) = 1

\* A run over a spec with an unsupported os and no containers has ended.
NoContainersWitness ==
  /\ Done
  /\ file.root = "map" /\ file.spec = "ok" /\ file.os = "bad" /\ file.conts = "missing"
  /\ Len(errs) = 2

-----------------------------------------------------------------------------
(* C8.  Container isolation: an element of containers that is no mapping   *)
(* gives exactly "containers[] must be object" and leaves the diagnostics  *)
(* of the other elements as they are; in a mapping element each of name,   *)
(* image, ports, readinessProbe, livenessProbe and resources gives the     *)
(* diagnostics it gives in a container whose other fields are valid, and   *)
(* the container's diagnostics are these, in that order of the fields.     *)

ContainerFields ==
  <<"name", "image", "ports", "readinessProbe", "livenessProbe", "resources">>

\* The pair a valid container has for a field: none for an optional one.
ValidPair(fld) ==
  CASE fld = "name" -> KV(0, "name", StrS(0, "web_app"))
    [] fld = "image" -> KV(0, "image", StrS(0, "registry.bigbrother.io/web:1.0"))
    [] fld = "resources" -> KV(0, "resources", Mapping(0, <<>>))
    [] OTHER -> <<>>

\* The pair container c has for a field: its last declaration, or none.
OwnPair(c, fld) ==
  IF Decls(c, fld) = {} THEN <<>>
  ELSE <<c.content[2 * LastDecl(c, fld) - 1], c.content[2 * LastDecl(c, fld)]>>

\* Container c with every field but fld made valid.
Isolate(c, fld) ==
  Mapping(c.line,
          Flatten([i \in 1..Len(ContainerFields) |->
                     IF ContainerFields[i] = fld THEN OwnPair(c, fld)
                     ELSE ValidPair(ContainerFields[i])]))

ContainerOutcomes(e) == Outcomes(<<Call("validateContainer", e, "")>>)

ContainerIsolation ==
  Done =>
    \A cs \in {n \in ContainersNodes : n.kind = SequenceNode /\ Obj.kind = MappingNode} :
      /\ \A i \in 1..Len(cs.content) :
           LET e == cs.content[i]
           IN  IF e.kind # MappingNode
               THEN ContainerOutcomes(e)
                      = {<<Diag(Ptr(e.line), "containers[] must be object")>>}
               ELSE ContainerOutcomes(e)
                      = ConcatSets([k \in 1..Len(ContainerFields) |->
                                      ContainerOutcomes(Isolate(e, ContainerFields[k]))])
      /\ \E tail \in ConcatSets([i \in 1..Len(cs.content) |->
                                   ContainerOutcomes(cs.content[i])]) :
           EndsWith(errs, tail)

\* A run has ended over a first element that is no mapping and a container
\* with a bad name, with one diagnostic for each.
ContainerIsolationWitness ==
  /\ Done
  /\ file.root = "map" /\ file.spec = "ok" /\ file.conts = "ok"
  /\ file.first = "notmap" /\ file.cname = "bad"
  /\ Len(errs) = 2

-----------------------------------------------------------------------------
(* C10.  Duplicate keys are not reported and the last declaration wins:    *)
(* the view of a mapping gives every key the value node and the key line   *)
(* of its last declaration, and a run ends with the diagnostics of the     *)
(* document in which every key keeps its last declaration only.            *)

\* n with every mapping below it cut down to the last declaration of each key.
RECURSIVE Dedup(_)
Dedup(n) ==
  CASE n.kind = MappingNode ->
         [n EXCEPT !.content =
            Flatten([i \in 1..(Len(n.content) \div 2) |->
                       IF i = LastDecl(n, n.content[2 * i - 1].value)
                       THEN <<n.content[2 * i - 1], Dedup(n.content[2 * i])>>
                       ELSE <<>>])]
    [] n.kind \in {SequenceNode, DocumentNode} ->
         [n EXCEPT !.content = [i \in 1..Len(n.content) |-> Dedup(n.content[i])]]
    [] OTHER -> n

\* Some mapping of the tree declares a key twice.
HasDuplicates ==
  \E vn \in ValueNodes(root) :
    /\ vn.node.kind = MappingNode
    /\ \E i \in 1..(Len(vn.node.content) \div 2) :
         Cardinality(Decls(vn.node, vn.node.content[2 * i - 1].value)) > 1

LastDeclarationWins ==
  Done =>
    /\ \A vn \in ValueNodes(root) :
         vn.node.kind = MappingNode =>
           LET m == vn.node
               mv == getMapping(m)
               keys == {m.content[2 * i - 1].value : i \in 1..(Len(m.content) \div 2)}
           IN  /\ mv.ok
               /\ DOMAIN mv.fields = keys
               /\ DOMAIN mv.lines = keys
               /\ \A k \in keys :
                    /\ mv.fields[k] = m.content[2 * LastDecl(m, k)]
                    /\ mv.lines[k] = m.content[2 * LastDecl(m, k) - 1].line
    /\ errs \in Outcomes(<<Call("validateTop", Dedup(root), "")>>)

\* A run has ended over a manifest that declares apiVersion twice, the valid
\* value first and an unsupported one last.
LastDeclarationWinsWitness ==
  /\ Done
  /\ HasDuplicates
  /\ file.api = "dupbad"
  /\ errs = <<Diag(Ptr(14), "apiVersion has unsupported value 'v2'")>>

====
